---- MODULE Spec2Model ----
(***************************************************************************)
(* Model of firebase_admin/project_config_mgt.py: the Project value        *)
(* object and _ProjectManagementService (the lock-guarded cache of         *)
(* per-project auth clients, get_project and update_project), called       *)
(* concurrently by the threads of the host application.                    *)
(***************************************************************************)
EXTENDS Integers, Sequences, FiniteSets, TLC

\* ------------------------------------------------------------------ bounds
NumThreads == 2
MaxCalls == 3

Threads == 1..NumThreads

\* ------------------------------------------------------- Python values
\* A project_id argument as the caller passes it: any Python object.
PyNone == [type |-> "NoneType", s |-> "", n |-> 0]
PyStr(x) == [type |-> "str", s |-> x, n |-> 0]
PyInt(k) == [type |-> "int", s |-> "", n |-> k]

ProjectIdArgs == {PyNone, PyStr(""), PyInt(123), PyStr("p1"), PyStr("p2")}

\* A dict as a function from its keys; a list as a sequence of its items.
EmptyDict == [k \in {} |-> ""]
DataDict(d) == [type |-> "dict", d |-> d, items |-> << >>]
DataList(l) == [type |-> "list", d |-> EmptyDict, items |-> l]
DataNone == [type |-> "NoneType", d |-> EmptyDict, items |-> << >>]

BodyFull == DataDict([k \in {"name", "multiFactorConfig"} |->
                        IF k = "name" THEN "projects/p1" ELSE "mfa-state"])
BodyNameOnly == DataDict([k \in {"name"} |-> "projects/p1"])
BodyNoName == DataDict([k \in {"multiFactorConfig"} |-> "mfa-state"])

ProjectDataArgs == {BodyNameOnly, BodyNoName, DataList(<<"name">>), DataNone}

\* `key in data` for the containers above.
Contains(data, key) ==
    IF data.type = "dict" THEN key \in DOMAIN data.d
    ELSE \E i \in 1..Len(data.items) : data.items[i] = key

\* dict.get(key), with "None" standing for Python's None default.
DictGet(data, key) == IF key \in DOMAIN data.d THEN data.d[key] ELSE "None"

\* ------------------------------------------------------- Project
\* Project.__init__: the exception it raises, or "" when it returns.
ProjectInitNoNameCheck(data) ==
    IF data.type # "dict" THEN "ValueError" ELSE ""

Project__init__(data) ==
    IF data.type # "dict" THEN "ValueError"
    ELSE IF ~Contains(data, "name") THEN "ValueError"
    ELSE ""

\* Project.project_id
project_id_of(data) == DictGet(data, "name")

\* ------------------------------------------------------- collaborators
\* _auth_utils.validate_mfa_config: the exception it raises, or "".
MfaArgs == {"None", "invalid", "config"}
validate_mfa_config_raises(mfa) == IF mfa = "config" THEN "" ELSE "ValueError"
\* ... and the serializable representation it returns for a valid config.
validate_mfa_config(mfa) == "config-repr"

\* _auth_utils.build_update_mask: the top-level keys of the payload, in
\* payload order.  The payload is an insertion-ordered dict: a sequence of
\* <<key, value>> pairs.
build_update_mask(payload) == [i \in 1..Len(payload) |-> payload[i][1]]

\* _auth_utils.handle_auth_backend_error: the domain error a transport
\* error is translated to.
handle_auth_backend_error(error) ==
    IF error = "PROJECT_NOT_FOUND" THEN "ProjectNotFoundError" ELSE "FirebaseError"

\* _auth_utils.convertProjectAuthPayloadToUser: keeps the entries that
\* Project reads.
convertProjectAuthPayloadToUser(body) ==
    DataDict([k \in DOMAIN body.d \cap {"name", "multiFactorConfig"} |-> body.d[k]])

\* What JsonHttpClient.body() can do: return a decoded body, or raise a
\* requests.exceptions.RequestException.
Response(ok, body, error) == [ok |-> ok, body |-> body, error |-> error]
NoResponse == [ok |-> FALSE, body |-> DataNone, error |-> ""]
Responses ==
    {Response(TRUE, b, "") : b \in {BodyFull, BodyNoName}}
    \cup {Response(FALSE, DataNone, e) : e \in {"PROJECT_NOT_FOUND", "INTERNAL"}}

\* ------------------------------------------------------- pure helpers
\* sep.join(parts)
RECURSIVE join(_, _)
join(sep, parts) ==
    IF Len(parts) = 0 THEN ""
    ELSE IF Len(parts) = 1 THEN Head(parts)
    ELSE Head(parts) \o sep \o join(sep, Tail(parts))

\* the isinstance/emptiness test of auth_for_project
IsValidProjectIdAnyStr(pid) == pid.type = "str"

IsValidProjectId(pid) == pid.type = "str" /\ pid.s # ""

\* d[key] = value on a dict kept as a function
DictSet(d, key, value) ==
    [k \in DOMAIN d \cup {key} |-> IF k = key THEN value ELSE d[k]]

\* ------------------------------------------------------- state
VARIABLES
    project_clients,  \* self.project_clients: project ID -> auth.Client
    lock,             \* self.lock, an RLock: owning thread (0: none), depth
    created,          \* created[i]: the project ID auth.Client number i was built for
    returned,         \* <<project ID, client>> pairs auth_for_project has returned
    ncalls,           \* calls started so far
    op,               \* per thread: the operation it is in or has finished
    pc,               \* per thread: its position in that operation
    project_id,       \* per thread: auth_for_project's argument
    mfa,              \* per thread: update_project's argument
    data,             \* per thread: the argument Project() was last given
    client,           \* per thread: auth_for_project's local `client`
    payload,          \* per thread: update_project's local `payload`
    sent,             \* per thread: requests the current call gave the transport
    resp,             \* per thread: what the transport answered the current call
    ret               \* per thread: how the call ended (or is about to end)

shared == <<project_clients, lock, created, returned>>
vars == <<project_clients, lock, created, returned, ncalls,
          op, pc, project_id, mfa, data, client, payload, sent, resp, ret>>

NoRet == [kind |-> "none", exc |-> "", client |-> 0]
Return(c) == [kind |-> "return", exc |-> "", client |-> c]
Raise(e) == [kind |-> "raise", exc |-> e, client |-> 0]

AfpStates == {"afp_acquire", "afp_lookup", "afp_construct", "afp_insert", "afp_exit"}
LockedStates == {"afp_lookup", "afp_construct", "afp_insert", "afp_exit"}
WaitStates == {"get_wait", "upd_wait"}

\* _ProjectManagementService.__init__
Init ==
    /\ project_clients = [k \in {} |-> 0]
    /\ lock = [owner |-> 0, count |-> 0]
    /\ created = << >>
    /\ returned = {}
    /\ ncalls = 0
    /\ op = [t \in Threads |-> "none"]
    /\ pc = [t \in Threads |-> "idle"]
    /\ project_id = [t \in Threads |-> PyNone]
    /\ mfa = [t \in Threads |-> "None"]
    /\ data = [t \in Threads |-> DataNone]
    /\ client = [t \in Threads |-> 0]
    /\ payload = [t \in Threads |-> << >>]
    /\ sent = [t \in Threads |-> << >>]
    /\ resp = [t \in Threads |-> NoResponse]
    /\ ret = [t \in Threads |-> NoRet]

\* A thread enters an operation with fresh locals.
Enter(t, name) ==
    /\ pc[t] \in {"idle", "done"}
    /\ ncalls < MaxCalls
    /\ ncalls' = ncalls + 1
    /\ op' = [op EXCEPT ![t] = name]
    /\ client' = [client EXCEPT ![t] = 0]
    /\ resp' = [resp EXCEPT ![t] = NoResponse]

\* ------------------------------------------------------- Project(data)
\* Application code constructing a Project directly.
NewProject(t, d) ==
    /\ Enter(t, "Project")
    /\ project_id' = [project_id EXCEPT ![t] = PyNone]
    /\ mfa' = [mfa EXCEPT ![t] = "None"]
    /\ payload' = [payload EXCEPT ![t] = << >>]
    /\ data' = [data EXCEPT ![t] = d]
    /\ sent' = [sent EXCEPT ![t] = << >>]
    /\ ret' = [ret EXCEPT ![t] =
                 IF Project__init__(d) = "" THEN Return(0) ELSE Raise(Project__init__(d))]
    /\ pc' = [pc EXCEPT ![t] = "done"]
    /\ UNCHANGED shared

\* ------------------------------------------------------- auth_for_project
\* Entry and argument check.
auth_for_project(t, pid) ==
    /\ Enter(t, "auth_for_project")
    /\ project_id' = [project_id EXCEPT ![t] = pid]
    /\ mfa' = [mfa EXCEPT ![t] = "None"]
    /\ payload' = [payload EXCEPT ![t] = << >>]
    /\ data' = [data EXCEPT ![t] = DataNone]
    /\ sent' = [sent EXCEPT ![t] = << >>]
    /\ IF IsValidProjectId(pid)
       THEN /\ ret' = [ret EXCEPT ![t] = NoRet]
            /\ pc' = [pc EXCEPT ![t] = "afp_acquire"]
       ELSE /\ ret' = [ret EXCEPT ![t] = Raise("ValueError")]
            /\ pc' = [pc EXCEPT ![t] = "done"]
    /\ UNCHANGED shared

\* `with self.lock:` entered: RLock.acquire blocks while another thread owns it.
lock_acquire_unguarded(t) ==
    /\ pc[t] = "afp_acquire"
    /\ lock' = [owner |-> t, count |-> lock.count + 1]
    /\ pc' = [pc EXCEPT ![t] = "afp_lookup"]
    /\ UNCHANGED <<project_clients, created, returned, ncalls,
                   op, project_id, mfa, data, client, payload, sent, resp, ret>>

lock_acquire(t) ==
    /\ pc[t] = "afp_acquire"
    /\ lock.owner \in {0, t}
    /\ lock' = [owner |-> t, count |-> lock.count + 1]
    /\ pc' = [pc EXCEPT ![t] = "afp_lookup"]
    /\ UNCHANGED <<project_clients, created, returned, ncalls,
                   op, project_id, mfa, data, client, payload, sent, resp, ret>>

\* `if project_id in self.project_clients: return self.project_clients[...]`
cache_lookup_always_miss(t) ==
    /\ pc[t] = "afp_lookup"
    /\ pc' = [pc EXCEPT ![t] = "afp_construct"]
    /\ UNCHANGED <<shared, ncalls, op, project_id, mfa, data, client, payload,
                   sent, resp, ret>>

cache_lookup(t) ==
    /\ pc[t] = "afp_lookup"
    /\ IF project_id[t].s \in DOMAIN project_clients
       THEN /\ ret' = [ret EXCEPT ![t] = Return(project_clients[project_id[t].s])]
            /\ pc' = [pc EXCEPT ![t] = "afp_exit"]
       ELSE /\ ret' = ret
            /\ pc' = [pc EXCEPT ![t] = "afp_construct"]
    /\ UNCHANGED <<shared, ncalls, op, project_id, mfa, data, client, payload,
                   sent, resp>>

\* `client = auth.Client(self.app, project_id=project_id)`: a new object, or
\* the exception the constructor raises.
client_construct(t) ==
    /\ pc[t] = "afp_construct"
    /\ \/ /\ created' = Append(created, project_id[t].s)
          /\ client' = [client EXCEPT ![t] = Len(created) + 1]
          /\ pc' = [pc EXCEPT ![t] = "afp_insert"]
          /\ ret' = ret
       \/ /\ ret' = [ret EXCEPT ![t] = Raise("ClientError")]
          /\ pc' = [pc EXCEPT ![t] = "afp_exit"]
          /\ UNCHANGED <<created, client>>
    /\ UNCHANGED <<project_clients, lock, returned, ncalls,
                   op, project_id, mfa, data, payload, sent, resp>>

\* `self.project_clients[project_id] = client; return client`
cache_insert_replacing_dict(t) ==
    /\ pc[t] = "afp_insert"
    /\ project_clients' = [k \in {project_id[t].s} |-> client[t]]
    /\ ret' = [ret EXCEPT ![t] = Return(client[t])]
    /\ pc' = [pc EXCEPT ![t] = "afp_exit"]
    /\ UNCHANGED <<lock, created, returned, ncalls,
                   op, project_id, mfa, data, client, payload, sent, resp>>

cache_insert(t) ==
    /\ pc[t] = "afp_insert"
    /\ project_clients' = DictSet(project_clients, project_id[t].s, client[t])
    /\ ret' = [ret EXCEPT ![t] = Return(client[t])]
    /\ pc' = [pc EXCEPT ![t] = "afp_exit"]
    /\ UNCHANGED <<lock, created, returned, ncalls,
                   op, project_id, mfa, data, client, payload, sent, resp>>

\* The with-block is left, by return or by exception: RLock.release, then the
\* caller gets the pending result.
lock_release_on_return_only(t) ==
    /\ pc[t] = "afp_exit"
    /\ lock' = IF ret[t].kind = "return"
               THEN [owner |-> IF lock.count = 1 THEN 0 ELSE lock.owner,
                     count |-> lock.count - 1]
               ELSE lock
    /\ returned' = IF ret[t].kind = "return"
                   THEN returned \cup {<<project_id[t].s, ret[t].client>>}
                   ELSE returned
    /\ pc' = [pc EXCEPT ![t] = "done"]
    /\ UNCHANGED <<project_clients, created, ncalls,
                   op, project_id, mfa, data, client, payload, sent, resp, ret>>

lock_release(t) ==
    /\ pc[t] = "afp_exit"
    /\ lock' = [owner |-> IF lock.count = 1 THEN 0 ELSE lock.owner,
                count |-> lock.count - 1]
    /\ returned' = IF ret[t].kind = "return"
                   THEN returned \cup {<<project_id[t].s, ret[t].client>>}
                   ELSE returned
    /\ pc' = [pc EXCEPT ![t] = "done"]
    /\ UNCHANGED <<project_clients, created, ncalls,
                   op, project_id, mfa, data, client, payload, sent, resp, ret>>

\* ------------------------------------------------------- transport calls
\* self.client.body(method, url='', ...) as the transport sees it.
Request(method, kwargs, json, params) ==
    [method |-> method, url |-> "", kwargs |-> kwargs, json |-> json, params |-> params]

GetRequest == Request("get", {"url"}, << >>, "")

\* The try/except/else around self.client.body(): the translated error is
\* raised, or the converted body becomes a Project.
Outcome(r) ==
    IF ~r.ok THEN Raise(handle_auth_backend_error(r.error))
    ELSE IF Project__init__(convertProjectAuthPayloadToUser(r.body)) = "" THEN Return(0)
    ELSE Raise(Project__init__(convertProjectAuthPayloadToUser(r.body)))

ProjectArg(t, r) ==
    IF r.ok THEN convertProjectAuthPayloadToUser(r.body) ELSE data[t]

\* ------------------------------------------------------- get_project
\* Entry: the read request goes out and the thread blocks in the transport.
get_project_under_lock(t) ==
    /\ Enter(t, "get_project")
    /\ lock.owner \in {0, t}
    /\ lock' = [owner |-> t, count |-> lock.count + 1]
    /\ project_id' = [project_id EXCEPT ![t] = PyNone]
    /\ mfa' = [mfa EXCEPT ![t] = "None"]
    /\ payload' = [payload EXCEPT ![t] = << >>]
    /\ data' = [data EXCEPT ![t] = DataNone]
    /\ sent' = [sent EXCEPT ![t] = <<GetRequest>>]
    /\ ret' = [ret EXCEPT ![t] = NoRet]
    /\ pc' = [pc EXCEPT ![t] = "get_wait"]
    /\ UNCHANGED <<project_clients, created, returned>>

get_project(t) ==
    /\ Enter(t, "get_project")
    /\ project_id' = [project_id EXCEPT ![t] = PyNone]
    /\ mfa' = [mfa EXCEPT ![t] = "None"]
    /\ payload' = [payload EXCEPT ![t] = << >>]
    /\ data' = [data EXCEPT ![t] = DataNone]
    /\ sent' = [sent EXCEPT ![t] = <<GetRequest>>]
    /\ ret' = [ret EXCEPT ![t] = NoRet]
    /\ pc' = [pc EXCEPT ![t] = "get_wait"]
    /\ UNCHANGED shared

\* The transport returns or raises; the call ends.
get_project_response_retry(t, r) ==
    /\ pc[t] = "get_wait"
    /\ resp' = [resp EXCEPT ![t] = r]
    /\ IF ~r.ok /\ Len(sent[t]) < 2
       THEN /\ sent' = [sent EXCEPT ![t] = Append(@, GetRequest)]
            /\ UNCHANGED <<data, ret, pc>>
       ELSE /\ data' = [data EXCEPT ![t] = ProjectArg(t, r)]
            /\ ret' = [ret EXCEPT ![t] = Outcome(r)]
            /\ pc' = [pc EXCEPT ![t] = "done"]
            /\ sent' = sent
    /\ UNCHANGED <<shared, ncalls, op, project_id, mfa, client, payload>>

get_project_response(t, r) ==
    /\ pc[t] = "get_wait"
    /\ resp' = [resp EXCEPT ![t] = r]
    /\ data' = [data EXCEPT ![t] = ProjectArg(t, r)]
    /\ ret' = [ret EXCEPT ![t] = Outcome(r)]
    /\ pc' = [pc EXCEPT ![t] = "done"]
    /\ UNCHANGED <<shared, ncalls, op, project_id, mfa, client, payload, sent>>

\* ------------------------------------------------------- update_project
\* Entry: the payload is built from the arguments and checked.
update_project_no_empty_check(t, m) ==
    /\ Enter(t, "update_project")
    /\ project_id' = [project_id EXCEPT ![t] = PyNone]
    /\ mfa' = [mfa EXCEPT ![t] = m]
    /\ data' = [data EXCEPT ![t] = DataNone]
    /\ sent' = [sent EXCEPT ![t] = << >>]
    /\ IF m # "None" /\ validate_mfa_config_raises(m) # ""
       THEN /\ payload' = [payload EXCEPT ![t] = << >>]
            /\ ret' = [ret EXCEPT ![t] = Raise(validate_mfa_config_raises(m))]
            /\ pc' = [pc EXCEPT ![t] = "done"]
       ELSE /\ payload' = [payload EXCEPT ![t] =
                             IF m # "None" THEN << <<"mfa", validate_mfa_config(m)>> >>
                             ELSE << >>]
            /\ ret' = [ret EXCEPT ![t] = NoRet]
            /\ pc' = [pc EXCEPT ![t] = "upd_request"]
    /\ UNCHANGED shared

update_project(t, m) ==
    /\ Enter(t, "update_project")
    /\ project_id' = [project_id EXCEPT ![t] = PyNone]
    /\ mfa' = [mfa EXCEPT ![t] = m]
    /\ data' = [data EXCEPT ![t] = DataNone]
    /\ sent' = [sent EXCEPT ![t] = << >>]
    /\ IF m # "None" /\ validate_mfa_config_raises(m) # ""
       THEN /\ payload' = [payload EXCEPT ![t] = << >>]
            /\ ret' = [ret EXCEPT ![t] = Raise(validate_mfa_config_raises(m))]
            /\ pc' = [pc EXCEPT ![t] = "done"]
       ELSE IF m = "None"
       THEN /\ payload' = [payload EXCEPT ![t] = << >>]
            /\ ret' = [ret EXCEPT ![t] = Raise("ValueError")]
            /\ pc' = [pc EXCEPT ![t] = "done"]
       ELSE /\ payload' = [payload EXCEPT ![t] = << <<"mfa", validate_mfa_config(m)>> >>]
            /\ ret' = [ret EXCEPT ![t] = NoRet]
            /\ pc' = [pc EXCEPT ![t] = "upd_request"]
    /\ UNCHANGED shared

\* The mask is built and the patch request goes out.
update_project_request_raw_mfa(t) ==
    /\ pc[t] = "upd_request"
    /\ sent' = [sent EXCEPT ![t] = Append(@,
                  Request("patch", {"url", "json", "params"},
                          << <<"mfa", mfa[t]>> >>,
                          "updateMask=" \o join(",", build_update_mask(payload[t]))))]
    /\ pc' = [pc EXCEPT ![t] = "upd_wait"]
    /\ UNCHANGED <<shared, ncalls, op, project_id, mfa, data, client, payload, resp, ret>>

update_project_request(t) ==
    /\ pc[t] = "upd_request"
    /\ sent' = [sent EXCEPT ![t] = Append(@,
                  Request("patch", {"url", "json", "params"}, payload[t],
                          "updateMask=" \o join(",", build_update_mask(payload[t]))))]
    /\ pc' = [pc EXCEPT ![t] = "upd_wait"]
    /\ UNCHANGED <<shared, ncalls, op, project_id, mfa, data, client, payload, resp, ret>>

\* The transport returns or raises; the call ends.
update_project_response(t, r) ==
    /\ pc[t] = "upd_wait"
    /\ resp' = [resp EXCEPT ![t] = r]
    /\ data' = [data EXCEPT ![t] = ProjectArg(t, r)]
    /\ ret' = [ret EXCEPT ![t] = Outcome(r)]
    /\ pc' = [pc EXCEPT ![t] = "done"]
    /\ UNCHANGED <<shared, ncalls, op, project_id, mfa, client, payload, sent>>

\* ------------------------------------------------------- specification
\* The service as its callers drive it.
Next ==
    \E t \in Threads :
        \/ \E pid \in ProjectIdArgs : auth_for_project(t, pid)
        \/ lock_acquire(t)
        \/ cache_lookup(t)
        \/ client_construct(t)
        \/ cache_insert(t)
        \/ lock_release(t)
        \/ get_project(t)
        \/ \E r \in Responses : get_project_response(t, r)
        \/ \E m \in MfaArgs : update_project(t, m)
        \/ update_project_request(t)
        \/ \E r \in Responses : update_project_response(t, r)

Spec == Init /\ [][Next]_vars

\* The Project value object: built by application code from any value, and
\* by get_project and update_project from what the transport returned.
ProjectNext ==
    \E t \in Threads :
        \/ \E d \in ProjectDataArgs : NewProject(t, d)
        \/ get_project(t)
        \/ \E r \in Responses : get_project_response(t, r)
        \/ \E m \in MfaArgs : update_project(t, m)
        \/ update_project_request(t)
        \/ \E r \in Responses : update_project_response(t, r)

ProjectSpec == Init /\ [][ProjectNext]_vars

\* A thread that can take a step inside auth_for_project is eventually
\* scheduled; the transport and the callers owe nothing.
AfpStep ==
    \E t \in Threads :
        lock_acquire(t) \/ cache_lookup(t) \/ client_construct(t) \/ cache_insert(t)
        \/ lock_release(t)

FairSpec == Spec /\ WF_vars(AfpStep)

\* ------------------------------------------------------- properties
ValidIds == {pid.s : pid \in {q \in ProjectIdArgs : q.type = "str" /\ q.s # ""}}
ClientsCreatedFor(p) == {i \in 1..Len(created) : created[i] = p}
Finished(t, name) == op[t] = name /\ pc[t] = "done"

\* C1: however the threads calling auth_for_project with one unseen project
\* ID interleave, at most one client is ever constructed for that ID, and
\* every call that comes back returns exactly that client (a call with a
\* valid ID ends by returning unless the client constructor itself raised).
C1_OneClientForConcurrentCallers ==
    \A p \in ValidIds :
        /\ Cardinality(ClientsCreatedFor(p)) <= 1
        /\ \A t \in Threads :
              (Finished(t, "auth_for_project") /\ project_id[t] = PyStr(p)) =>
                 \/ ret[t].kind = "return" /\ ClientsCreatedFor(p) = {ret[t].client}
                 \/ ret[t] = Raise("ClientError")

\* Two callers of one unseen ID overlap: one has built and cached the client
\* and still holds the lock, the other waits for the lock.
C1_Witness ==
    \E t, u \in Threads :
        /\ t # u
        /\ pc[t] = "afp_exit" /\ ret[t].kind = "return" /\ client[t] = ret[t].client
        /\ client[t] # 0
        /\ pc[u] = "afp_acquire" /\ project_id[u] = project_id[t]

\* C2: over any sequence of auth_for_project calls, two calls return the same
\* client exactly when they were given the same project ID.
C2_SameIdSameClient ==
    \A a, b \in returned : (a[1] = b[1]) <=> (a[2] = b[2])

\* A call answered from the cache, after clients for two IDs were returned.
C2_Witness ==
    /\ \E a, b \in returned : a[1] # b[1]
    /\ \E t \in Threads :
          /\ Finished(t, "auth_for_project") /\ ret[t].kind = "return"
          /\ client[t] = 0

\* C3: project_clients holds at most one client per project ID (every client
\* built for an ID that has an entry is that entry), and no step of any
\* operation replaces or removes an entry.
C3_EntriesNeverReplaced ==
    /\ [](\A i \in 1..Len(created) :
             created[i] \in DOMAIN project_clients => project_clients[created[i]] = i)
    /\ [][\A p \in DOMAIN project_clients :
             p \in DOMAIN project_clients' /\ project_clients'[p] = project_clients[p]]_vars

\* Two entries exist, and an update_project call has completed as well.
C3_Witness ==
    /\ Cardinality(DOMAIN project_clients) = 2
    /\ \E t \in Threads : Finished(t, "update_project") /\ resp[t].ok

\* C4: auth_for_project with None, '' or a non-string raises ValueError at
\* once: the call never reaches the lock, builds no client, sends nothing, and
\* leaves project_clients as it was.
C4_InvalidProjectIdRejected ==
    /\ [](\A t \in Threads :
             (op[t] = "auth_for_project"
              /\ ~(project_id[t].type = "str" /\ project_id[t].s # "")) =>
                 /\ pc[t] = "done"
                 /\ ret[t] = Raise("ValueError")
                 /\ lock.owner # t
                 /\ sent[t] = << >>)
    /\ [][\A t \in Threads :
             (op'[t] = "auth_for_project" /\ ncalls' # ncalls
              /\ ~(project_id'[t].type = "str" /\ project_id'[t].s # "")
              /\ (pc[t] # pc'[t] \/ project_id[t] # project_id'[t] \/ op[t] # op'[t])) =>
                 UNCHANGED <<project_clients, lock, created>>]_vars

\* The empty string was rejected while another thread held the lock.
C4_Witness ==
    \E t, u \in Threads :
        /\ Finished(t, "auth_for_project") /\ project_id[t] = PyStr("")
        /\ ret[t] = Raise("ValueError")
        /\ lock.owner = u /\ u # t

\* C5: update_project() without mfa raises ValueError and gives the transport
\* no request.
C5_UpdateWithoutFieldsRejected ==
    \A t \in Threads :
        (op[t] = "update_project" /\ mfa[t] = "None") =>
            /\ pc[t] = "done"
            /\ ret[t] = Raise("ValueError")
            /\ sent[t] = << >>
            /\ resp[t] = NoResponse

C5_Witness ==
    \E t \in Threads :
        Finished(t, "update_project") /\ mfa[t] = "None" /\ ret[t].kind = "raise"

\* C6: update_project(mfa=<valid>) sends one PATCH whose params are exactly
\* updateMask=mfa, the mask being the payload's top-level keys in order, and
\* whose JSON body is {"mfa": <validated representation>}.
C6_PatchMaskAndBody ==
    \A t \in Threads :
        (op[t] = "update_project" /\ pc[t] \in {"upd_wait", "done"}
         /\ validate_mfa_config_raises(mfa[t]) = "") =>
            /\ Len(sent[t]) = 1
            /\ sent[t][1].method = "patch"
            /\ sent[t][1].url = ""
            /\ sent[t][1].params = "updateMask=mfa"
            /\ sent[t][1].json = << <<"mfa", validate_mfa_config(mfa[t])>> >>

C6_Witness ==
    \E t \in Threads :
        /\ op[t] = "update_project" /\ pc[t] = "upd_wait" /\ mfa[t] = "config"
        /\ Len(sent[t]) = 1

\* C7: a get_project or update_project call that reaches the transport gives
\* it exactly one request; when the transport raises, the call ends with the
\* translated error (ProjectNotFoundError or FirebaseError) and nothing more
\* is sent.
C7_OneRequestNoRetry ==
    \A t \in Threads :
        /\ Len(sent[t]) <= 1
        /\ pc[t] \in WaitStates => Len(sent[t]) = 1
        /\ (pc[t] = "done" /\ resp[t] # NoResponse) => Len(sent[t]) = 1
        /\ (resp[t] # NoResponse /\ ~resp[t].ok) =>
              /\ pc[t] = "done"
              /\ ret[t].kind = "raise"
              /\ ret[t].exc = IF resp[t].error = "PROJECT_NOT_FOUND"
                              THEN "ProjectNotFoundError" ELSE "FirebaseError"

C7_Witness ==
    \E t, u \in Threads :
        /\ Finished(t, "get_project") /\ resp[t].error = "PROJECT_NOT_FOUND"
        /\ ret[t] = Raise("ProjectNotFoundError")
        /\ Finished(u, "update_project") /\ resp[u].error = "INTERNAL"
        /\ ret[u] = Raise("FirebaseError")

\* C8: Project(data) succeeds exactly when data is a dict with the key
\* 'name'; otherwise it raises ValueError; on success project_id is the value
\* stored under 'name'.
ProjectBuilt(t) ==
    pc[t] = "done" /\ (op[t] = "Project" \/ (op[t] \in {"get_project", "update_project"} /\ resp[t].ok))

C8_ProjectNeedsName ==
    \A t \in Threads :
        ProjectBuilt(t) =>
            /\ ret[t].kind = "return" <=>
                  (data[t].type = "dict" /\ "name" \in DOMAIN data[t].d)
            /\ ret[t].kind # "return" => ret[t] = Raise("ValueError")
            /\ ret[t].kind = "return" => project_id_of(data[t]) = data[t].d["name"]

\* A dict without 'name' was refused and a dict with it accepted.
C8_Witness ==
    \E t, u \in Threads :
        /\ Finished(t, "Project") /\ data[t] = BodyNoName /\ ret[t].kind = "raise"
        /\ Finished(u, "Project") /\ data[u] = BodyNameOnly /\ ret[u].kind = "return"

\* C9: get_project and update_project never take the lock and never touch
\* project_clients: only a step of a thread inside auth_for_project changes
\* either, the lock's owner is always inside auth_for_project's locked
\* section, and an auth_for_project call completes even while another thread
\* stays blocked in the transport.
C9_NetworkCallsLeaveCacheAlone ==
    /\ [][(project_clients' # project_clients \/ lock' # lock) =>
             \E t \in Threads : pc[t] \in AfpStates /\ pc'[t] # pc[t]]_vars
    /\ [](lock.owner # 0 =>
             op[lock.owner] = "auth_for_project" /\ pc[lock.owner] \in LockedStates)
    /\ \A t \in Threads :
          (pc[t] \in AfpStates /\ \E u \in Threads : pc[u] \in WaitStates)
              ~> (pc[t] = "done")

\* One thread is blocked in the transport while another has cached a client
\* and is leaving the locked section.
C9_Witness ==
    \E t, u \in Threads :
        /\ pc[t] \in WaitStates
        /\ pc[u] = "afp_exit" /\ ret[u].kind = "return"
        /\ project_id[u].s \in DOMAIN project_clients

\* C10: the lock is released on every way out of auth_for_project (cache hit,
\* insert, constructor exception), so every caller gets the lock and its call
\* ends; a call whose constructor raised inserts nothing.
C10_LockAlwaysReleased ==
    /\ [](\A t \in Threads : pc[t] \notin LockedStates => lock.owner # t)
    /\ [](lock.count = IF lock.owner = 0 THEN 0 ELSE 1)
    /\ [][\A t \in Threads :
             (pc[t] \in AfpStates /\ ret'[t] = Raise("ClientError")) =>
                 project_clients' = project_clients]_vars
    /\ [](\A t \in Threads :
             (Finished(t, "auth_for_project") /\ ret[t] = Raise("ClientError")) =>
                 client[t] = 0)
    /\ \A t \in Threads : (pc[t] \in AfpStates) ~> (pc[t] = "done")

\* A call failed in the constructor, and a later call for the same ID built
\* and cached a client.
C10_Witness ==
    \E t, u \in Threads :
        /\ Finished(t, "auth_for_project") /\ ret[t] = Raise("ClientError")
        /\ Finished(u, "auth_for_project") /\ ret[u].kind = "return"
        /\ project_id[u] = project_id[t]
        /\ client[u] # 0 /\ project_clients[project_id[u].s] = client[u]
        /\ lock.owner = 0

====
